---- MODULE Spec2Model ----
(***************************************************************************)
(* Model of GraphBuilder (python/lsst/pipe/supertask/graphBuilder.py):     *)
(* makeGraph, _makeFullIODatasetTypes and the loops of _makeGraph.         *)
(*                                                                         *)
(* Python dicts are modelled as sequences in insertion order (CPython 3.6  *)
(* and later iterate a dict in insertion order; assigning to an existing   *)
(* key keeps the key's position and replaces its value).                   *)
(*                                                                         *)
(* The registry, the task classes and the expression parser are outside    *)
(* the repository: the rows the registry yields and the dataset types the  *)
(* task classes declare are inputs, drawn from the small sets below.       *)
(***************************************************************************)
EXTENDS Integers, Sequences, FiniteSets

\* ---------------------------------------------------------------- bounds
MaxRows == 2

MaxTasks == 2

\* ref.id of a dataset that does not exist yet (Python None)
None == 0

\* ------------------------------------------------------- input universe
Detectors == {1, 2}

Tracts == {5}

Ids == {None, 1}

\* DatasetType: compared by name; units are the columns of its dataId
DatasetType(n, u) == [name |-> n, units |-> u]

raw == DatasetType("raw", {"detector"})

calibrated == DatasetType("calibrated", {"detector"})

coadd == DatasetType("coadd", {"tract"})

\* registry._schema.dataUnits: DataUnit name -> link columns
dataUnits == [Detector |-> <<"detector">>, Tract |-> <<"tract">>]

\* canonical order of the column names, as sorted() orders them
ColumnOrder == <<"detector", "tract">>

\* DatasetRef held by a row for one dataset type
DatasetRef(dsType, dataId, id) ==
    [datasetType |-> dsType.name,
     dataId |-> [c \in dsType.units |-> dataId[c]],
     id |-> id]

\* one row of selectDataUnits: dataId plus a DatasetRef per dataset type;
\* the external input raw always exists
Row(d, t, calId, coaddId) ==
    LET dataId == [detector |-> d, tract |-> t]
    IN [dataId |-> dataId,
        datasetRefs |-> [raw |-> DatasetRef(raw, dataId, 1),
                         calibrated |-> DatasetRef(calibrated, dataId, calId),
                         coadd |-> DatasetRef(coadd, dataId, coaddId)]]

Rows == {Row(d, t, ci, oi) : d \in Detectors, t \in Tracts, ci \in Ids, oi \in Ids}

RowSeqs == UNION {[1..n -> Rows] : n \in 0..MaxRows}

\* TaskDef with the dataset types of its class and config.quantum.units
TaskDef(label, ins, outs, units) ==
    [label |-> label, inputs |-> ins, outputs |-> outs, units |-> units]

TaskA == TaskDef("TaskA", <<raw>>, <<calibrated>>, <<"Detector">>)

TaskB == TaskDef("TaskB", <<calibrated>>, <<coadd>>, <<"Tract">>)

TaskC == TaskDef("TaskC", <<raw>>, <<calibrated, coadd>>, <<"Tract">>)

TaskD == TaskDef("TaskD", <<calibrated>>, <<>>, <<"Detector">>)

TaskDefs == {TaskA, TaskB, TaskC, TaskD}

\* a pipeline holds a task definition once
Pipelines ==
    {p \in UNION {[1..n -> TaskDefs] : n \in 0..MaxTasks} :
        \A i, j \in 1..Len(p) : p[i] = p[j] => i = j}

\* ------------------------------------------------------------- variables
VARIABLES
    pc,                \* "idle", "task", "rows", "quanta", "returned", "raised"
    skipExisting,      \* GraphBuilder.skipExisting
    taskDatasets,      \* list of _TaskDatasetTypes
    inputs,            \* result of _makeFullIODatasetTypes
    outputs,
    unitVerse,         \* rows stored locally
    qgraph,            \* QuantumGraph under construction
    taskIdx,           \* position of the loop over taskDatasets
    qlinks,
    rowIdx,            \* position of the loop over unitVerse
    taskQuantaInputs,  \* dict qkey -> {dsType -> {dataRefKey -> ref}}
    taskQuantaOutputs,
    qIdx,              \* position of the loop over taskQuantaInputs
    quanta,            \* quanta of the current task
    result,            \* <<graph>> once makeGraph returned, else << >>
    calls,             \* number of makeGraph calls started
    prev               \* << >> or <<outcome of the previous call>>

vars == <<pc, skipExisting, taskDatasets, inputs, outputs, unitVerse, qgraph,
          taskIdx, qlinks, rowIdx, taskQuantaInputs, taskQuantaOutputs, qIdx,
          quanta, result, calls, prev>>

\* ------------------------------------------------ _makeFullIODatasetTypes
\* d[k] = v on a dict used for lookup only
DictSet(d, k, v) == [x \in (DOMAIN d) \cup {k} |-> IF x = k THEN v ELSE d[x]]

RECURSIVE CollectNames(_, _, _)
\* one of the two inner loops: add every name to the set, record the type
CollectNames(dsTypes, names, all) ==
    IF dsTypes = << >> THEN [names |-> names, all |-> all]
    ELSE CollectNames(Tail(dsTypes), names \cup {Head(dsTypes).name},
                      DictSet(all, Head(dsTypes).name, Head(dsTypes)))

RECURSIVE CollectTasks(_, _)
\* the loop over taskDatasets
CollectTasks(tds, acc) ==
    IF tds = << >> THEN acc
    ELSE LET i == CollectNames(Head(tds).inputs, acc.inputs, acc.all)
             o == CollectNames(Head(tds).outputs, acc.outputs, i.all)
         IN CollectTasks(Tail(tds),
                         [inputs |-> i.names, outputs |-> o.names, all |-> o.all])

\* mutant: the outputs are not removed from the inputs
RemoveOutputs_Keep(ins, outs) == ins

\* inputs -= outputs
RemoveOutputs(ins, outs) == ins \ outs

MakeFullIODatasetTypes(tds) ==
    LET acc == CollectTasks(tds, [inputs |-> {}, outputs |-> {}, all |-> << >>])
        ins == RemoveOutputs(acc.inputs, acc.outputs)
    IN [inputs |-> {acc.all[n] : n \in ins},
        outputs |-> {acc.all[n] : n \in acc.outputs}]

\* ------------------------------------------------------------ _makeGraph
RECURSIVE QLinks(_)
\* qlinks += dataUnit.link for every unit of config.quantum.units
QLinks(units) ==
    IF units = << >> THEN << >>
    ELSE dataUnits[Head(units)] \o QLinks(Tail(units))

\* mutant: the key is made of every column of the row
QKey_WholeDataId(row, links) ==
    [i \in 1..Len(ColumnOrder) |-> <<ColumnOrder[i], row.dataId[ColumnOrder[i]]>>]

\* qkey = tuple((col, row.dataId[col]) for col in qlinks)
QKey(row, links) == [i \in 1..Len(links) |-> <<links[i], row.dataId[links[i]]>>]

\* _dataRefKey: tuple(sorted(dataRef.dataId.items()))
dataRefKey(dataRef) ==
    LET cols == SelectSeq(ColumnOrder, LAMBDA c : c \in DOMAIN dataRef.dataId)
    IN [i \in 1..Len(cols) |-> <<cols[i], dataRef.dataId[cols[i]]>>]

HasRefKey(dataRefs, key) == \E i \in 1..Len(dataRefs) : dataRefKey(dataRefs[i]) = key

\* mutant: the reference is appended to a list
SetDataRef_Append(dataRefs, dataRef) == Append(dataRefs, dataRef)

\* dataRefs[_dataRefKey(dataRef)] = dataRef
SetDataRef(dataRefs, dataRef) ==
    IF HasRefKey(dataRefs, dataRefKey(dataRef))
    THEN [i \in 1..Len(dataRefs) |->
             IF dataRefKey(dataRefs[i]) = dataRefKey(dataRef) THEN dataRef ELSE dataRefs[i]]
    ELSE Append(dataRefs, dataRef)

HasQKey(taskQuanta, qkey) == \E i \in 1..Len(taskQuanta) : taskQuanta[i].qkey = qkey

\* mutant: a new key goes first
SetDefault_Front(taskQuanta, qkey, n) ==
    IF HasQKey(taskQuanta, qkey) THEN taskQuanta
    ELSE <<[qkey |-> qkey, refs |-> [i \in 1..n |-> << >>]]>> \o taskQuanta

\* taskQuanta.setdefault(qkey, {}); a new key goes last
SetDefault(taskQuanta, qkey, n) ==
    IF HasQKey(taskQuanta, qkey) THEN taskQuanta
    ELSE Append(taskQuanta, [qkey |-> qkey, refs |-> [i \in 1..n |-> << >>]])

\* body of the loop over the rows, for the inputs or for the outputs
AddRowRefs(taskQuanta, qkey, dsTypes, row) ==
    LET d == SetDefault(taskQuanta, qkey, Len(dsTypes))
    IN [k \in 1..Len(d) |->
          IF d[k].qkey = qkey
          THEN [d[k] EXCEPT !.refs =
                   [i \in 1..Len(dsTypes) |->
                       SetDataRef(d[k].refs[i], row.datasetRefs[dsTypes[i].name])]]
          ELSE d[k]]

\* taskQuanta[qkey]
Lookup(taskQuanta, qkey) ==
    taskQuanta[CHOOSE i \in 1..Len(taskQuanta) : taskQuanta[i].qkey = qkey]

\* mutant: only the references of one dataset type are taken
Chain_FirstOnly(refs, i) == IF i > Len(refs) THEN << >> ELSE refs[i]

RECURSIVE Chain(_, _)
\* chain.from_iterable(dataRefs.values() for dataRefs in refs.values())
Chain(refs, i) ==
    IF i > Len(refs) THEN << >> ELSE refs[i] \o Chain(refs, i + 1)

AllExist(refs) == \A i \in 1..Len(refs) : refs[i].id # None

AnyExist(refs) == \E i \in 1..Len(refs) : refs[i].id # None

\* mutant: any() in the place of all() in the test that skips
Decision_AnySkips(skip, outs) ==
    IF skip /\ AnyExist(outs) THEN "skip"
    ELSE IF AnyExist(outs) THEN "raise"
    ELSE "proceed"

\* mutant: skipExisting is not looked at
Decision_IgnoreSkip(skip, outs) ==
    IF AnyExist(outs) THEN "raise" ELSE "proceed"

\* the two tests on the outputs of a quantum
Decision(skip, outs) ==
    IF skip /\ AllExist(outs) THEN "skip"
    ELSE IF AnyExist(outs) THEN "raise"
    ELSE "proceed"

\* Quantum(run=None, task=None) after addOutput / addPredictedInput; qkey
\* labels the quantum with the key it was made for
Quantum(qkey, ins, outs) == [qkey |-> qkey, predictedInputs |-> ins, outputs |-> outs]

QuantumGraphNodes(taskDef, qs) == [taskDef |-> taskDef, quanta |-> qs]

\* mutant: a task without quanta gets no node
AppendNode_SkipEmpty(graph, taskDef, qs) ==
    IF qs = << >> THEN graph ELSE Append(graph, QuantumGraphNodes(taskDef, qs))

\* qgraph.append(QuantumGraphNodes(taskDss.taskDef, quanta))
AppendNode(graph, taskDef, qs) == Append(graph, QuantumGraphNodes(taskDef, qs))

RECURSIVE Partition(_, _, _, _, _)
\* the whole loop over the rows for one task, inputs or outputs
Partition(rows, i, links, dsTypes, acc) ==
    IF i > Len(rows) THEN acc
    ELSE Partition(rows, i + 1, links, dsTypes,
                   AddRowRefs(acc, QKey(rows[i], links), dsTypes, rows[i]))

\* ------------------------------------------------------------------ Init
Init ==
    /\ pc = "idle"
    /\ skipExisting \in BOOLEAN
    /\ taskDatasets = << >>
    /\ inputs = {}
    /\ outputs = {}
    /\ unitVerse = << >>
    /\ qgraph = << >>
    /\ taskIdx = 1
    /\ qlinks = << >>
    /\ rowIdx = 1
    /\ taskQuantaInputs = << >>
    /\ taskQuantaOutputs = << >>
    /\ qIdx = 1
    /\ quanta = << >>
    /\ result = << >>
    /\ calls = 0
    /\ prev = << >>

\* --------------------------------------------------------------- actions
\* makeGraph up to the loop over the tasks: collect the dataset types of
\* every task, aggregate them, store the rows of the registry
StartBuild(pipeline, rows) ==
    LET tds == [i \in 1..Len(pipeline) |->
                   [taskDef |-> pipeline[i],
                    inputs |-> pipeline[i].inputs,
                    outputs |-> pipeline[i].outputs]]
        io == MakeFullIODatasetTypes(tds)
    IN /\ taskDatasets' = tds
       /\ inputs' = io.inputs
       /\ outputs' = io.outputs
       /\ unitVerse' = rows
       /\ qgraph' = << >>
       /\ taskIdx' = 1
       /\ qlinks' = << >>
       /\ rowIdx' = 1
       /\ taskQuantaInputs' = << >>
       /\ taskQuantaOutputs' = << >>
       /\ qIdx' = 1
       /\ quanta' = << >>
       /\ result' = << >>
       /\ calls' = calls + 1
       /\ pc' = "task"
       /\ UNCHANGED skipExisting

MakeGraph ==
    /\ pc = "idle"
    /\ \E pipeline \in Pipelines, rows \in RowSeqs : StartBuild(pipeline, rows)
    /\ UNCHANGED prev

\* start of one iteration of the loop over taskDatasets
BeginTask ==
    /\ pc = "task"
    /\ taskIdx <= Len(taskDatasets)
    /\ taskQuantaInputs' = << >>
    /\ taskQuantaOutputs' = << >>
    /\ qlinks' = QLinks(taskDatasets[taskIdx].taskDef.units)
    /\ rowIdx' = 1
    /\ qIdx' = 1
    /\ quanta' = << >>
    /\ pc' = IF Len(unitVerse) = 0 THEN "quanta" ELSE "rows"
    /\ UNCHANGED <<skipExisting, taskDatasets, inputs, outputs, unitVerse, qgraph,
                   taskIdx, result, calls, prev>>

\* one iteration of the loop over unitVerse
AddRow ==
    /\ pc = "rows"
    /\ rowIdx <= Len(unitVerse)
    /\ LET row == unitVerse[rowIdx]
           qkey == QKey(row, qlinks)
           taskDss == taskDatasets[taskIdx]
       IN /\ taskQuantaInputs' = AddRowRefs(taskQuantaInputs, qkey, taskDss.inputs, row)
          /\ taskQuantaOutputs' = AddRowRefs(taskQuantaOutputs, qkey, taskDss.outputs, row)
    /\ rowIdx' = rowIdx + 1
    /\ pc' = IF rowIdx = Len(unitVerse) THEN "quanta" ELSE "rows"
    /\ UNCHANGED <<skipExisting, taskDatasets, inputs, outputs, unitVerse, qgraph,
                   taskIdx, qlinks, qIdx, quanta, result, calls, prev>>

\* one iteration of the loop over taskQuantaInputs
MakeQuantum ==
    /\ pc = "quanta"
    /\ qIdx <= Len(taskQuantaInputs)
    /\ LET qkey == taskQuantaInputs[qIdx].qkey
           outs == Chain(Lookup(taskQuantaOutputs, qkey).refs, 1)
           ins == Chain(Lookup(taskQuantaInputs, qkey).refs, 1)
           d == Decision(skipExisting, outs)
       IN \/ /\ d = "skip"
             /\ qIdx' = qIdx + 1
             /\ UNCHANGED <<pc, quanta>>
          \/ /\ d = "raise"
             /\ pc' = "raised"
             /\ UNCHANGED <<qIdx, quanta>>
          \/ /\ d = "proceed"
             /\ quanta' = Append(quanta, Quantum(qkey, ins, outs))
             /\ qIdx' = qIdx + 1
             /\ UNCHANGED pc
    /\ UNCHANGED <<skipExisting, taskDatasets, inputs, outputs, unitVerse, qgraph,
                   taskIdx, qlinks, rowIdx, taskQuantaInputs, taskQuantaOutputs,
                   result, calls, prev>>

\* end of one iteration of the loop over taskDatasets
EndTask ==
    /\ pc = "quanta"
    /\ qIdx > Len(taskQuantaInputs)
    /\ qgraph' = AppendNode(qgraph, taskDatasets[taskIdx].taskDef, quanta)
    /\ taskIdx' = taskIdx + 1
    /\ pc' = "task"
    /\ UNCHANGED <<skipExisting, taskDatasets, inputs, outputs, unitVerse, qlinks,
                   rowIdx, taskQuantaInputs, taskQuantaOutputs, qIdx, quanta,
                   result, calls, prev>>

\* return qgraph
Return ==
    /\ pc = "task"
    /\ taskIdx > Len(taskDatasets)
    /\ result' = <<qgraph>>
    /\ pc' = "returned"
    /\ UNCHANGED <<skipExisting, taskDatasets, inputs, outputs, unitVerse, qgraph,
                   taskIdx, qlinks, rowIdx, taskQuantaInputs, taskQuantaOutputs,
                   qIdx, quanta, calls, prev>>

\* what a finished call shows to its caller
Outcome == [pc |-> pc, result |-> result, rows |-> unitVerse]

\* the rows with those at positions i and i + 1 exchanged
SwapRows(rows, i) ==
    [k \in 1..Len(rows) |->
        IF k = i THEN rows[i + 1] ELSE IF k = i + 1 THEN rows[i] ELSE rows[k]]

\* a second makeGraph call of the same builder with the same pipeline and
\* the same rows, two different neighbours exchanged (every permutation of
\* the rows is a chain of such exchanges)
MakeGraphAgain ==
    /\ pc \in {"returned", "raised"}
    /\ calls = 1
    /\ prev' = <<Outcome>>
    /\ \E i \in 1..(Len(unitVerse) - 1) :
          /\ unitVerse[i] # unitVerse[i + 1]
          /\ StartBuild([k \in 1..Len(taskDatasets) |-> taskDatasets[k].taskDef],
                        SwapRows(unitVerse, i))

Next ==
    \/ MakeGraph
    \/ BeginTask
    \/ AddRow
    \/ MakeQuantum
    \/ EndTask
    \/ Return
    \/ MakeGraphAgain

Spec == Init /\ [][Next]_vars

\* ------------------------------------------------- vocabulary of the claims
Done == pc \in {"returned", "raised"}

Returned == pc = "returned"

Graph == result[1]

Tasks == 1..Len(taskDatasets)

LinksOf(t) == QLinks(taskDatasets[t].taskDef.units)

\* the candidate quanta of task t: its keys with their output buckets, as
\* the loop over the rows leaves them
CandOutputs(t) == Partition(unitVerse, 1, LinksOf(t), taskDatasets[t].outputs, << >>)

\* the output references of the k-th candidate of the buckets co
OutsOf(co, k) == Chain(co[k].refs, 1)

Range(s) == {s[i] : i \in 1..Len(s)}

InNode(t, qkey) == \E q \in 1..Len(Graph[t].quanta) : Graph[t].quanta[q].qkey = qkey

Partial(outs) == AnyExist(outs) /\ ~AllExist(outs)

\* the rows of the build that fall on key qkey of task t
RowsOfKey(t, qkey) == {i \in 1..Len(unitVerse) : QKey(unitVerse[i], LinksOf(t)) = qkey}

SameDataset(r1, r2) == r1.datasetType = r2.datasetType /\ r1.dataId = r2.dataId

\* refs holds exactly one reference for every (dataset type, dataId) that the
\* rows of key qkey give for the dataset types dsTypes, and nothing else
Covers(refs, t, qkey, dsTypes) ==
    /\ \A i \in RowsOfKey(t, qkey) : \A d \in 1..Len(dsTypes) :
          Cardinality({n \in 1..Len(refs) :
              SameDataset(refs[n], unitVerse[i].datasetRefs[dsTypes[d].name])}) = 1
    /\ \A n \in 1..Len(refs) : \E i \in RowsOfKey(t, qkey) : \E d \in 1..Len(dsTypes) :
          refs[n] = unitVerse[i].datasetRefs[dsTypes[d].name]

\* ----------------------------------------------------------------- C1
\* C1 (as stated): if some candidate quantum of some task has some but not
\* all of its output references with an id, or all of them with an id while
\* skipExisting is false, makeGraph returns no graph (the build cannot end
\* but with OutputExistsError).
C1_ConflictAsStated ==
    (pc = "returned" \/ result # << >>) =>
        \A t \in Tasks :
            LET co == CandOutputs(t)
            IN \A k \in 1..Len(co) :
                  LET outs == OutsOf(co, k)
                  IN /\ ~Partial(outs)
                     /\ ~(AllExist(outs) /\ ~skipExisting)

\* C1 (amended): the same, the second case only for a quantum that has at
\* least one output reference.
C1_Conflict ==
    (pc = "returned" \/ result # << >>) =>
        \A t \in Tasks :
            LET co == CandOutputs(t)
            IN \A k \in 1..Len(co) :
                  LET outs == OutsOf(co, k)
                  IN /\ ~Partial(outs)
                     /\ ~(AnyExist(outs) /\ AllExist(outs) /\ ~skipExisting)

\* a build that raised in its second task on a partly existing output set,
\* with the node of the first task already built
C1_Witness ==
    /\ pc = "raised"
    /\ skipExisting
    /\ taskIdx = 2
    /\ Len(qgraph) = 1
    /\ Partial(OutsOf(CandOutputs(2), qIdx))

\* ----------------------------------------------------------------- C2
\* C2: with skipExisting, a candidate quantum whose output references all
\* have an id is not in its task's node of the returned graph; evaluating it
\* raises nothing and the loop goes on to the next key.
C2_SkippedAbsent ==
    /\ [](Returned /\ skipExisting =>
            \A t \in Tasks :
                LET co == CandOutputs(t)
                IN \A k \in 1..Len(co) :
                      AllExist(OutsOf(co, k)) => ~InNode(t, co[k].qkey))
    /\ [][(/\ pc = "quanta"
           /\ qIdx <= Len(taskQuantaInputs)
           /\ skipExisting
           /\ AllExist(Chain(Lookup(taskQuantaOutputs, taskQuantaInputs[qIdx].qkey).refs, 1)))
          => (pc' = "quanta" /\ qIdx' = qIdx + 1 /\ quanta' = quanta)]_vars

\* a returned graph whose task has one skipped quantum (its one output
\* exists) and one quantum that was made
C2_Witness ==
    /\ Returned
    /\ skipExisting
    /\ \E t \in Tasks :
          LET co == CandOutputs(t)
          IN \E k1, k2 \in 1..Len(co) :
                /\ AnyExist(OutsOf(co, k1)) /\ AllExist(OutsOf(co, k1))
                /\ ~InNode(t, co[k1].qkey)
                /\ InNode(t, co[k2].qkey)

\* ----------------------------------------------------------------- C3
\* the quantum of key qkey of task t is in the node with every deduplicated
\* output and input reference of the key, no output having an id
Proceeds(t, qkey) ==
    \E q \in 1..Len(Graph[t].quanta) :
        LET quantum == Graph[t].quanta[q]
        IN /\ quantum.qkey = qkey
           /\ Covers(quantum.outputs, t, qkey, taskDatasets[t].outputs)
           /\ Covers(quantum.predictedInputs, t, qkey, taskDatasets[t].inputs)
           /\ ~AnyExist(quantum.outputs)

\* C3 (as stated): in a returned graph every candidate quantum none of whose
\* output references has an id is in the node with all its references, for
\* either value of skipExisting.
C3_ProceedsAsStated ==
    Returned =>
        \A t \in Tasks :
            LET co == CandOutputs(t)
            IN \A k \in 1..Len(co) :
                  ~AnyExist(OutsOf(co, k)) => Proceeds(t, co[k].qkey)

\* C3 (amended): the same for the candidate quanta that have at least one
\* output reference or are built with skipExisting false.
C3_Proceeds ==
    Returned =>
        \A t \in Tasks :
            LET co == CandOutputs(t)
            IN \A k \in 1..Len(co) :
                  (~AnyExist(OutsOf(co, k)) /\ (OutsOf(co, k) # << >> \/ ~skipExisting))
                      => Proceeds(t, co[k].qkey)

\* a returned graph with a quantum of two output references and an input,
\* made from two rows, under skipExisting
C3_Witness ==
    /\ Returned
    /\ skipExisting
    /\ Len(unitVerse) = 2
    /\ \E t \in Tasks :
          LET co == CandOutputs(t)
          IN \E k \in 1..Len(co) :
                /\ Len(OutsOf(co, k)) >= 2
                /\ ~AnyExist(OutsOf(co, k))
                /\ Proceeds(t, co[k].qkey)

\* ----------------------------------------------------------------- C4
\* C4: a returned graph has one node per task of the pipeline, the i-th node
\* carrying the i-th task definition, also when its list of quanta is empty.
C4_OneNodePerTask ==
    Returned =>
        /\ Len(Graph) = Len(taskDatasets)
        /\ \A i \in Tasks : Graph[i].taskDef = taskDatasets[i].taskDef

\* a returned graph of two different tasks, the first node without quanta
\* although rows were given, the second with one
C4_Witness ==
    /\ Returned
    /\ Len(Graph) = 2
    /\ Len(unitVerse) > 0
    /\ Graph[1].taskDef # Graph[2].taskDef
    /\ Graph[1].quanta = << >>
    /\ Graph[2].quanta # << >>

\* ----------------------------------------------------------------- C5
\* the quanta of a finished call as sets, per task
QuantumAsSet(q) ==
    [qkey |-> q.qkey, inputs |-> Range(q.predictedInputs), outputs |-> Range(q.outputs)]

QuantaSets(o) ==
    [pc |-> o.pc,
     tasks |-> IF o.pc = "returned"
               THEN [t \in 1..Len(o.result[1]) |->
                        {QuantumAsSet(q) : q \in Range(o.result[1][t].quanta)}]
               ELSE << >>]

\* C5: two builds of one pipeline over the same rows in two orders give, for
\* every task, the same set of quanta (keys, input and output references
\* with their ids).
C5_Determinism ==
    (Done /\ prev # << >>) => QuantaSets(Outcome) = QuantaSets(prev[1])

\* ----------------------------------------------------------------- C6
KeySequences(o) ==
    [t \in 1..Len(o.result[1]) |->
        [q \in 1..Len(o.result[1][t].quanta) |-> o.result[1][t].quanta[q].qkey]]

FirstRow(t, qkey) ==
    CHOOSE i \in RowsOfKey(t, qkey) : \A j \in RowsOfKey(t, qkey) : i <= j

NoDuplicate(refs) ==
    \A i, j \in 1..Len(refs) : SameDataset(refs[i], refs[j]) => i = j

\* C7: in every quantum of a returned graph a (dataset type, dataId) pair
\* occurs at most once among the inputs and at most once among the outputs.
C7_Dedup ==
    Returned =>
        \A t \in Tasks : \A q \in 1..Len(Graph[t].quanta) :
            /\ NoDuplicate(Graph[t].quanta[q].predictedInputs)
            /\ NoDuplicate(Graph[t].quanta[q].outputs)

\* a returned quantum on whose key two rows fell, both giving the same
\* input dataset and the same output dataset
C7_Witness ==
    /\ Returned
    /\ \E t \in Tasks : \E q \in 1..Len(Graph[t].quanta) :
          /\ Cardinality(RowsOfKey(t, Graph[t].quanta[q].qkey)) = 2
          /\ Len(Graph[t].quanta[q].predictedInputs) = 1
          /\ Len(Graph[t].quanta[q].outputs) = 1

\* ----------------------------------------------------------------- C8
Consumed == {d \in {raw, calibrated, coadd} :
                \E t \in Tasks : d \in Range(taskDatasets[t].inputs)}

Produced == {d \in {raw, calibrated, coadd} :
                \E t \in Tasks : d \in Range(taskDatasets[t].outputs)}

\* C8: _makeFullIODatasetTypes returns as inputs exactly the dataset types
\* some task consumes and none produces, as outputs all the types some task
\* produces; a produced type is never among the inputs.
C8_ExternalInputs ==
    pc # "idle" =>
        /\ inputs = Consumed \ Produced
        /\ outputs = Produced
        /\ \A i \in inputs : \A o \in outputs : i.name # o.name

\* a pipeline in which a type is produced by one task and consumed by another
C8_Witness ==
    /\ pc # "idle"
    /\ calibrated \in Consumed
    /\ calibrated \in Produced
    /\ raw \in inputs

\* ----------------------------------------------------------------- C9
\* skipExisting, [TaskA, TaskB], rows (detector 1, tract 5) and (detector 2,
\* tract 5), of the output references only calibrated of detector 1 has an id
C9_Scenario ==
    /\ Returned
    /\ skipExisting
    /\ Len(taskDatasets) = 2
    /\ taskDatasets[1].taskDef = TaskA
    /\ taskDatasets[2].taskDef = TaskB
    /\ unitVerse = <<Row(1, 5, 1, None), Row(2, 5, None, None)>>

C9_TaskANode ==
    /\ Len(Graph[1].quanta) = 1
    /\ Graph[1].quanta[1].qkey = <<<<"detector", 2>>>>
    /\ Range(Graph[1].quanta[1].outputs) = {unitVerse[2].datasetRefs.calibrated}

C9_TaskBOneQuantum ==
    /\ Len(Graph[2].quanta) = 1
    /\ Graph[2].quanta[1].qkey = <<<<"tract", 5>>>>

\* C9 (as stated): TaskA's node holds only the quantum of detector 2, and
\* TaskB's node one quantum (tract 5) whose calibrated inputs are only the
\* reference of detector 2.
C9_SurvivorOnlyAsStated ==
    C9_Scenario =>
        /\ C9_TaskANode
        /\ C9_TaskBOneQuantum
        /\ Range(Graph[2].quanta[1].predictedInputs) = {unitVerse[2].datasetRefs.calibrated}

\* C9 (amended): TaskA's node holds only the quantum of detector 2, and
\* TaskB's node one quantum (tract 5) whose calibrated inputs are the
\* references of both detectors, the existing one of detector 1 included.
C9_BothInputs ==
    C9_Scenario =>
        /\ C9_TaskANode
        /\ C9_TaskBOneQuantum
        /\ Graph[2].quanta[1].predictedInputs =
               <<unitVerse[1].datasetRefs.calibrated, unitVerse[2].datasetRefs.calibrated>>
        /\ Graph[2].quanta[1].outputs = <<unitVerse[1].datasetRefs.coadd>>

C9_Witness == C9_Scenario /\ calls = 1

\* ----------------------------------------------------------------- C10
\* every reference of the bucket before the step is in it after the step
Kept(before, after) ==
    \A k \in 1..Len(before) : \A i \in 1..Len(before[k].refs) :
        Range(before[k].refs[i]) \subseteq Range(after[k].refs[i])

\* C10: while the rows of a task are partitioned, inserting the references
\* of a row never replaces a reference already in a bucket.
C10_Idempotent ==
    [][(pc = "rows" /\ rowIdx' = rowIdx + 1)
          => /\ Kept(taskQuantaInputs, taskQuantaInputs')
             /\ Kept(taskQuantaOutputs, taskQuantaOutputs')]_vars

====
